---- MODULE Spec2Model ----
(***************************************************************************)
(* Model of mdbook-tailwindcss (src/src/main.rs): Tailwindcss::run walks   *)
(* the chapters of a book and process_tailwindcss scans each chapter's     *)
(* event vector for `{:.class}` annotations, rewrites the vector and       *)
(* re-renders it.  Strings are sequences of one-character strings, event   *)
(* indices are 0-based as in the source, and a Rust panic is a pc value.   *)
(***************************************************************************)
EXTENDS Integers, Sequences, FiniteSets, TLC

VARIABLES book, out, cur, pc, incoming_events, i, class_annotations,
          queries, k, last_end, slices, new_events

vars == <<book, out, cur, pc, incoming_events, i, class_annotations,
          queries, k, last_end, slices, new_events>>

(* ---------------------------- bounds ----------------------------------- *)

MaxLen == 5

MaxLenWN == 6

MaxChapters == 2

(* ---------------------------- strings ---------------------------------- *)

\* Rust &s[a..b] on a vector or slice, 0-based and end-exclusive.
Slice(s, a, b) == SubSeq(s, a + 1, b)

\* text.split(""): an empty string, every character, an empty string.
SplitEmpty(text) == <<"">> \o text \o <<"">>

\* [..].join(""): the concatenation of the pieces, as characters.
JoinEmpty(v) == SelectSeq(v, LAMBDA c : c # "")

\* .replace('.', "")
ReplaceDots(s) == SelectSeq(s, LAMBDA c : c # ".")

RECURSIVE FirstSpace(_, _)
FirstSpace(s, p) ==
  IF p > Len(s) THEN 0
  ELSE IF s[p] = " " THEN p
  ELSE FirstSpace(s, p + 1)

\* class.split(' '): the pieces between single spaces, empty pieces included.
RECURSIVE SplitSpace(_)
SplitSpace(s) ==
  LET p == FirstSpace(s, 1) IN
  IF p = 0 THEN <<s>>
  ELSE <<SubSeq(s, 1, p - 1)>> \o SplitSpace(SubSeq(s, p + 1, Len(s)))

\* c.join(" ")
RECURSIVE JoinSpace(_)
JoinSpace(c) ==
  IF Len(c) = 0 THEN <<>>
  ELSE IF Len(c) = 1 THEN c[1]
  ELSE c[1] \o <<" ">> \o JoinSpace(Tail(c))

\* s.join("") and slices.concat()
RECURSIVE Concat(_)
Concat(s) == IF Len(s) = 0 THEN <<>> ELSE s[1] \o Concat(Tail(s))

OpenDelim == <<"{", ":", ".">>

CloseDelim == <<"}">>

TextRed500 == <<"t", "e", "x", "t", "-", "r", "e", "d", "-", "5", "0", "0">>

ColorRed == <<"c", "o", "l", "o", "r", ":", "r", "e", "d", ";">>

\* tailwind.inline(kls): the utility text-red-500 resolves to a declaration,
\* other keywords are rejected; what the library answers for the empty
\* keyword is not fixed by this repository (emptyOk).
Inline(kls, emptyOk) ==
  IF kls = TextRed500 THEN [ok |-> TRUE, decl |-> ColorRed]
  ELSE IF kls = <<>> /\ emptyOk THEN [ok |-> TRUE, decl |-> <<>>]
  ELSE [ok |-> FALSE, decl |-> <<>>]

(* ---------------------------- events ----------------------------------- *)

ParagraphStart == [kind |-> "Start", text |-> <<>>]

ParagraphEnd == [kind |-> "End", text |-> <<>>]

\* Any event the scan ignores: SoftBreak, headings, owned text, ...
Other == [kind |-> "Other", text |-> <<>>]

\* Event::Text(CowStr::Borrowed(text))
TextRun(t) == [kind |-> "Text", text |-> t]

Html(t) == [kind |-> "Html", text |-> t]

\* format!("<div class\"{}\" style=\"{}\">", ca.class, ca.style)
DivStart(ca) ==
  Html(<<"<", "d", "i", "v", " ", "c", "l", "a", "s", "s", "\"">> \o ca.class
       \o <<"\"", " ", "s", "t", "y", "l", "e", "=", "\"">> \o ca.style
       \o <<"\"", ">">>)

DivEnd == Html(<<"<", "/", "d", "i", "v", ">">>)

None == <<>>

Some(x) == <<x>>

(* ---------------------------- scan (lines 57-98) ----------------------- *)

\* v[..4]: panics when v has fewer than 4 pieces.
HeadPanics(v) == Len(v) < 4

\* v[..4].join("") == "{:." && v[(len_v - 2)..].join("") == "}"
MatchesAnnotation(v) ==
  /\ JoinEmpty(Slice(v, 0, 4)) = OpenDelim
  /\ JoinEmpty(Slice(v, Len(v) - 2, Len(v))) = CloseDelim

\* v[4..(len_v - 2)]: panics when the range is reversed.
PayloadPanics(v) == 4 > Len(v) - 2

\* v[4..(len_v - 2)].join("").replace('.', "")
Payload(v) == ReplaceDots(JoinEmpty(Slice(v, 4, Len(v) - 2)))

\* for kls in class.split(' ') { match tailwind.inline(kls) { ... } }
RECURSIVE ResolveLoop(_, _, _, _)
ResolveLoop(parts, c, s, emptyOk) ==
  IF Len(parts) = 0 THEN [c |-> c, s |-> s]
  ELSE LET kls == Head(parts)
           r == Inline(kls, emptyOk)
       IN IF r.ok THEN ResolveLoop(Tail(parts), c, Append(s, r.decl), emptyOk)
          ELSE ResolveLoop(Tail(parts), Append(c, kls), s, emptyOk)

\* The ClassAnnotation pushed for a matching text at index idx.
NewAnnotation(class, idx, emptyOk) ==
  LET r == ResolveLoop(SplitSpace(class), <<>>, <<>>, emptyOk) IN
  [class |-> JoinSpace(r.c), style |-> Concat(r.s),
   paragraph_start |-> idx - 1, paragraph_end |-> None]

\* The Event::Text(CowStr::Borrowed(text)) arm.
ScanText(events, idx, cas, emptyOk) ==
  LET v == SplitEmpty(events[idx + 1].text) IN
  IF ~(idx > 0 /\ events[idx].kind = "Start")
    THEN [panic |-> FALSE, cas |-> cas, asked |-> <<>>]
  ELSE IF HeadPanics(v)
    THEN [panic |-> TRUE, cas |-> cas, asked |-> <<>>]
  ELSE IF ~MatchesAnnotation(v)
    THEN [panic |-> FALSE, cas |-> cas, asked |-> <<>>]
  ELSE IF PayloadPanics(v)
    THEN [panic |-> TRUE, cas |-> cas, asked |-> <<>>]
  ELSE [panic |-> FALSE,
        cas |-> Append(cas, NewAnnotation(Payload(v), idx, emptyOk)),
        asked |-> SplitSpace(Payload(v))]

\* A scan that sets the end without testing paragraph_end.is_none().
ScanParagraphEnd_overwrite(cas, idx) ==
  IF Len(cas) > 0
    THEN [cas EXCEPT ![Len(cas)].paragraph_end = Some(idx)]
    ELSE cas

\* The Event::End(Tag::Paragraph) arm.
ScanParagraphEnd(cas, idx) ==
  IF Len(cas) > 0 /\ cas[Len(cas)].paragraph_end = None
    THEN [cas EXCEPT ![Len(cas)].paragraph_end = Some(idx)]
    ELSE cas

\* One iteration of `for i in 0..incoming_events.len()`.
ScanEvent(events, idx, cas, emptyOk) ==
  LET event == events[idx + 1] IN
  IF event.kind = "Text" THEN ScanText(events, idx, cas, emptyOk)
  ELSE IF event.kind = "End"
    THEN [panic |-> FALSE, cas |-> ScanParagraphEnd(cas, idx), asked |-> <<>>]
  ELSE [panic |-> FALSE, cas |-> cas, asked |-> <<>>]

\* The whole scan loop of one pass over a vector, stopping at a panic.
RECURSIVE ScanFrom(_, _, _, _)
ScanFrom(events, idx, cas, emptyOk) ==
  IF idx >= Len(events) THEN [panic |-> FALSE, cas |-> cas]
  ELSE LET r == ScanEvent(events, idx, cas, emptyOk) IN
       IF r.panic THEN [panic |-> TRUE, cas |-> r.cas]
       ELSE ScanFrom(events, idx + 1, r.cas, emptyOk)

(* ---------------------------- rewrite (lines 102-137) ------------------ *)

\* ca.paragraph_end.unwrap_or(incoming_events.len() - 1)
EndOrLast(events, ca) ==
  IF ca.paragraph_end = None THEN Len(events) - 1 ELSE ca.paragraph_end[1]

\* &incoming_events[ca.paragraph_start..(last_end + 1)]
Paragraph(events, ca) ==
  Slice(events, ca.paragraph_start, EndOrLast(events, ca) + 1)

\* A slice of the loop body is out of range: [last_end..ca.paragraph_start],
\* [ca.paragraph_start..(last_end + 1)], paragraph[0..1] or paragraph[2..].
RewritePanics(events, ca, le) ==
  \/ le > ca.paragraph_start
  \/ ca.paragraph_start > Len(events)
  \/ ca.paragraph_start > EndOrLast(events, ca) + 1
  \/ EndOrLast(events, ca) + 1 > Len(events)
  \/ Len(Paragraph(events, ca)) < 2

\* A rewrite that pushes paragraph[1..], keeping the annotation text.
RewriteSlices_keepAnnotation(events, ca, le) ==
  LET paragraph == Paragraph(events, ca) IN
  << Slice(events, le, ca.paragraph_start),
     <<DivStart(ca)>>,
     Slice(paragraph, 0, 1),
     Slice(paragraph, 1, Len(paragraph)),
     <<DivEnd>> >>

\* A rewrite that closes the wrapper before the last token of the paragraph.
RewriteSlices_closeInside(events, ca, le) ==
  LET paragraph == Paragraph(events, ca) IN
  << Slice(events, le, ca.paragraph_start),
     <<DivStart(ca)>>,
     Slice(paragraph, 0, 1),
     Slice(paragraph, 2, Len(paragraph) - 1),
     <<DivEnd>> >>

\* The five slices one iteration of the rewrite loop pushes.
RewriteSlices(events, ca, le) ==
  LET paragraph == Paragraph(events, ca) IN
  << Slice(events, le, ca.paragraph_start),
     <<DivStart(ca)>>,
     Slice(paragraph, 0, 1),
     Slice(paragraph, 2, Len(paragraph)),
     <<DivEnd>> >>

\* slices.push(&incoming_events[last_end..])
TailSlice(events, le) == Slice(events, le, Len(events))

(* ---------------------------- inputs ----------------------------------- *)

TextOneChar == <<"a">>

TextHello == <<"H", "i">>

TextOpenOnly == <<"{", ":", ".">>

TextCloseOnly == <<"a", "b", "}">>

\* {:.}
AnnEmpty == <<"{", ":", ".", "}">>

\* {:.a}
AnnClass == <<"{", ":", ".", "a", "}">>

\* {:.a  b}
AnnTwoSpaces == <<"{", ":", ".", "a", " ", " ", "b", "}">>

\* {:.a.b text-red-500}
AnnDots == <<"{", ":", ".", "a", ".", "b", " ">> \o TextRed500 \o <<"}">>

Texts == {TextOneChar, TextOpenOnly, TextCloseOnly, AnnEmpty, AnnTwoSpaces,
          AnnDots}

TextsWN == {TextOneChar, TextHello, AnnClass, AnnDots}

Tokens(texts) == {ParagraphStart, ParagraphEnd, Other} \cup {TextRun(t) : t \in texts}

Streams(texts, n) == UNION {[1..m -> Tokens(texts)] : m \in 0..n}

\* Paragraph starts and ends alternate and every paragraph is closed.
RECURSIVE Nested(_, _, _)
Nested(s, p, open) ==
  IF p > Len(s) THEN ~open
  ELSE IF s[p].kind = "Start" THEN ~open /\ Nested(s, p + 1, TRUE)
  ELSE IF s[p].kind = "End" THEN open /\ Nested(s, p + 1, FALSE)
  ELSE Nested(s, p + 1, open)

WellNested(s) == Nested(s, 1, FALSE)

SampleChapters ==
  { <<ParagraphStart, TextRun(AnnClass), Other, ParagraphEnd>>,
    <<ParagraphStart, TextRun(TextHello), ParagraphEnd>>,
    <<ParagraphStart, TextRun(AnnDots), ParagraphEnd, Other>>,
    <<Other, ParagraphStart, TextRun(TextOneChar), ParagraphEnd>> }

(* ---------------------------- state machine ---------------------------- *)

InitLocals ==
  /\ cur = 1
  /\ pc = "run"
  /\ out = [c \in 1..Len(book) |-> <<>>]
  /\ incoming_events = <<>>
  /\ i = 0
  /\ class_annotations = <<>>
  /\ queries = <<>>
  /\ k = 0
  /\ last_end = 0
  /\ slices = <<>>
  /\ new_events = <<>>

\* A book of one chapter holding any event vector.
Init ==
  /\ book \in {<<s>> : s \in Streams(Texts, MaxLen)}
  /\ InitLocals

\* A book of one chapter holding a well-nested event vector.
InitWN ==
  /\ book \in {<<s>> : s \in {t \in Streams(TextsWN, MaxLenWN) : WellNested(t)}}
  /\ InitLocals

\* A book of several chapters.
InitRun ==
  /\ book \in UNION {[1..n -> SampleChapters] : n \in 1..MaxChapters}
  /\ InitLocals

\* run: for_each_mut hands the next chapter to process_tailwindcss, which
\* parses its content (line 51).
ParseChapter ==
  /\ pc = "run"
  /\ cur <= Len(book)
  /\ incoming_events' = book[cur]
  /\ i' = 0
  /\ class_annotations' = <<>>
  /\ queries' = <<>>
  /\ k' = 0
  /\ last_end' = 0
  /\ slices' = <<>>
  /\ new_events' = <<>>
  /\ pc' = "scan"
  /\ UNCHANGED <<book, out, cur>>

\* One iteration of the scan loop (lines 58-98).
ScanStep ==
  /\ pc = "scan"
  /\ i < Len(incoming_events)
  /\ \E emptyOk \in BOOLEAN :
       LET r == ScanEvent(incoming_events, i, class_annotations, emptyOk) IN
       /\ pc' = IF r.panic THEN "panic_scan" ELSE "scan"
       /\ i' = IF r.panic THEN i ELSE i + 1
       /\ class_annotations' = r.cas
       /\ queries' = queries \o r.asked
  /\ UNCHANGED <<book, out, cur, incoming_events, k, last_end, slices, new_events>>

\* The scan loop ends; lines 102-114 set up the rewrite.
ScanDone ==
  /\ pc = "scan"
  /\ i = Len(incoming_events)
  /\ pc' = "rewrite"
  /\ k' = 0
  /\ last_end' = 0
  /\ slices' = <<>>
  /\ UNCHANGED <<book, out, cur, incoming_events, i, class_annotations, queries,
                 new_events>>

\* One iteration of the rewrite loop (lines 116-135).
RewriteStep ==
  /\ pc = "rewrite"
  /\ k < Len(class_annotations)
  /\ LET ca == class_annotations[k + 1] IN
     IF RewritePanics(incoming_events, ca, last_end)
       THEN /\ pc' = "panic_rewrite"
            /\ UNCHANGED <<k, last_end, slices>>
       ELSE /\ slices' = slices \o RewriteSlices(incoming_events, ca, last_end)
            /\ last_end' = EndOrLast(incoming_events, ca)
            /\ k' = k + 1
            /\ pc' = "rewrite"
  /\ UNCHANGED <<book, out, cur, incoming_events, i, class_annotations, queries,
                 new_events>>

\* Lines 136-137: the tail slice and the concatenation.
RewriteTail ==
  /\ pc = "rewrite"
  /\ k = Len(class_annotations)
  /\ IF last_end > Len(incoming_events)
       THEN /\ pc' = "panic_rewrite"
            /\ UNCHANGED <<slices, new_events>>
       ELSE /\ slices' = Append(slices, TailSlice(incoming_events, last_end))
            /\ new_events' = Concat(slices')
            /\ pc' = "render"
  /\ UNCHANGED <<book, out, cur, incoming_events, i, class_annotations, queries,
                 k, last_end>>

\* Lines 140-143: cmark renders the new vector and the chapter is updated;
\* process_tailwindcss returns Ok and for_each_mut goes on.
RenderOk ==
  /\ pc = "render"
  /\ out' = [out EXCEPT ![cur] = new_events]
  /\ cur' = cur + 1
  /\ pc' = "run"
  /\ UNCHANGED <<book, incoming_events, i, class_annotations, queries, k,
                 last_end, slices, new_events>>

\* Line 141: cmark returns an error and .expect("can re-render cmark") panics.
RenderFail ==
  /\ pc = "render"
  /\ pc' = "panic_render"
  /\ UNCHANGED <<book, out, cur, incoming_events, i, class_annotations, queries,
                 k, last_end, slices, new_events>>

\* Line 32: every chapter was visited and run returns Ok(book).
RunReturn ==
  /\ pc = "run"
  /\ cur > Len(book)
  /\ pc' = "done"
  /\ UNCHANGED <<book, out, cur, incoming_events, i, class_annotations, queries,
                 k, last_end, slices, new_events>>

Next ==
  \/ ParseChapter
  \/ ScanStep
  \/ ScanDone
  \/ RewriteStep
  \/ RewriteTail
  \/ RenderOk
  \/ RenderFail
  \/ RunReturn

Spec == Init /\ [][Next]_vars

SpecWN == InitWN /\ [][Next]_vars

SpecRun == InitRun /\ [][Next]_vars

(* ---------------------------- properties ------------------------------- *)

\* A text that begins with `{:.` and ends with `}`.
IsAnnotationText(t) ==
  /\ Len(t) >= 4
  /\ SubSeq(t, 1, 3) = OpenDelim
  /\ t[Len(t)] = "}"

\* The matches a scan of the vector s records, whatever the resolver answers.
NoMatchIn(s) == \A e \in BOOLEAN : ScanFrom(s, 0, <<>>, e).cas = <<>>

\* C1: the rewritten stream of a well-nested input with m matches has
\* exactly (input token count + m) tokens.
C1_TokenCount ==
  pc = "render" =>
    Len(new_events) = Len(incoming_events) + Len(class_annotations)

\* C2: the scan never panics on a well-nested stream, whatever the text
\* that follows a ParagraphStart.
C2_ScanNeverPanics == pc # "panic_scan"

\* C3 (as stated): a second scan, over the stream one pass produced from a
\* well-nested input, records no annotation match.
C3_Idempotent == pc = "render" => NoMatchIn(new_events)

\* No matched annotation text is immediately followed by another text that
\* begins with `{:.` and ends with `}`.
NoAnnotationFollows ==
  \A j \in 1..Len(class_annotations) :
    LET n == class_annotations[j].paragraph_start + 3 IN
    ~(/\ n <= Len(incoming_events)
      /\ incoming_events[n].kind = "Text"
      /\ IsAnnotationText(incoming_events[n].text))

\* C3 (amended): when the first pass over a well-nested input completes and
\* no matched annotation text is immediately followed by another text that
\* begins with `{:.` and ends with `}`, a second scan over the rewritten
\* stream records no annotation match.
C3_IdempotentSingleAnnotation ==
  (pc = "render" /\ NoAnnotationFollows) => NoMatchIn(new_events)

\* A pass that wrapped a paragraph whose annotation is followed by plain text.
C3_Witness ==
  /\ pc = "render"
  /\ NoAnnotationFollows
  /\ \E j \in 1..Len(class_annotations) :
       LET n == class_annotations[j].paragraph_start + 3 IN
       /\ n <= Len(incoming_events)
       /\ incoming_events[n] = TextRun(TextHello)
       /\ \E q \in 1..Len(new_events) : new_events[q] = DivStart(class_annotations[j])

\* C4: the annotation `{:.a.b text-red-500}` is recorded with class_names
\* `a b` and style_declarations `color:red;`.
C4_DotsSeparate ==
  \A j \in 1..Len(class_annotations) :
    incoming_events[class_annotations[j].paragraph_start + 2] = TextRun(AnnDots)
      => /\ class_annotations[j].class = <<"a", " ", "b">>
         /\ class_annotations[j].style = ColorRed

\* No text that immediately follows a ParagraphStart is an annotation.
NoAnnotation(s) ==
  \A p \in 2..Len(s) :
    (s[p].kind = "Text" /\ s[p - 1].kind = "Start") => ~IsAnnotationText(s[p].text)

\* C5: a stream without annotation is passed through unmodified: no match
\* is recorded, the pass completes and the rewritten stream equals the input.
C5_PassThrough ==
  (pc # "run" /\ NoAnnotation(incoming_events)) =>
    /\ class_annotations = <<>>
    /\ pc \notin {"panic_scan", "panic_rewrite"}
    /\ (pc = "render" => new_events = incoming_events)

\* C6: a serializer failure on one chapter never crashes the process; run
\* goes on with the remaining chapters.
C6_RenderFailureIsolated == pc # "panic_render"

HasEmptyKeyword(class) ==
  \/ (Len(class) > 0 /\ (class[1] = " " \/ class[Len(class)] = " "))
  \/ \E p \in 1..(Len(class) - 1) : class[p] = " " /\ class[p + 1] = " "

\* C8: the resolver is never queried with an empty keyword and class_names
\* has no leading, trailing or repeated space.
C8_NoEmptyKeyword ==
  /\ \A q \in 1..Len(queries) : queries[q] # <<>>
  /\ \A j \in 1..Len(class_annotations) : ~HasEmptyKeyword(class_annotations[j].class)

\* The recorded matches are ascending and disjoint, and only the last one
\* may lack its end.
MatchesOrdered ==
  LET cas == class_annotations IN
  /\ \A a, b \in 1..Len(cas) :
       a < b => cas[a].paragraph_start < cas[b].paragraph_start
  /\ \A a \in 1..Len(cas) :
       /\ a < Len(cas) => cas[a].paragraph_end # None
       /\ cas[a].paragraph_end # None =>
            /\ cas[a].paragraph_start < cas[a].paragraph_end[1]
            /\ a < Len(cas) => cas[a].paragraph_end[1] < cas[a + 1].paragraph_start

\* A step of the scan keeps every paragraph end that is already set.
EndsKept ==
  pc = "scan" =>
    \A a \in 1..Len(class_annotations) :
      class_annotations[a].paragraph_end # None =>
        /\ a <= Len(class_annotations')
        /\ class_annotations'[a].paragraph_end = class_annotations[a].paragraph_end

\* C9: at every step of the scan over a well-nested stream the matches are
\* strictly ascending by paragraph_start_index, only the most recent one can
\* lack its end, an end once set is never overwritten, and consecutive
\* matches do not overlap.
C9_ScannerInvariant == [](MatchesOrdered) /\ [][EndsKept]_vars

\* The scan went past a second paragraph after recording two closed matches.
C9_Witness ==
  /\ pc = "scan"
  /\ Len(class_annotations) = 2
  /\ class_annotations[1].paragraph_end # None
  /\ class_annotations[2].paragraph_end # None
  /\ i = Len(incoming_events)

\* What the rewrite emits for one match: wrapper-open, the ParagraphStart,
\* the tokens after the annotation through the ParagraphEnd, wrapper-close.
Wrapped(ca) ==
  <<DivStart(ca), incoming_events[ca.paragraph_start + 1]>>
    \o Slice(incoming_events, ca.paragraph_start + 2, ca.paragraph_end[1] + 1)
    \o <<DivEnd>>

OccursAt(s, sub, p) ==
  /\ p + Len(sub) - 1 <= Len(s)
  /\ SubSeq(s, p, p + Len(sub) - 1) = sub

\* C10: for every match of a well-nested stream the rewritten stream holds,
\* contiguously, the wrapper-open with the match's attributes, the original
\* ParagraphStart, the input tokens paragraph_start_index + 2 through
\* paragraph_end_index, and the wrapper-close right after the ParagraphEnd;
\* the wrappers are in the order of their matches.
C10_WrapperLayout ==
  pc = "render" =>
    LET cas == class_annotations IN
    \E f \in [1..Len(cas) -> 1..Len(new_events)] :
      /\ \A j \in 1..Len(cas) :
           /\ cas[j].paragraph_end # None
           /\ incoming_events[cas[j].paragraph_start + 1] = ParagraphStart
           /\ incoming_events[cas[j].paragraph_end[1] + 1] = ParagraphEnd
           /\ OccursAt(new_events, Wrapped(cas[j]), f[j])
      /\ \A j \in 1..(Len(cas) - 1) : f[j] + Len(Wrapped(cas[j])) <= f[j + 1]

\* Two paragraphs with different annotations were wrapped.
C10_Witness ==
  /\ pc = "render"
  /\ Len(class_annotations) = 2
  /\ class_annotations[1].class # class_annotations[2].class
  /\ class_annotations[1].style # class_annotations[2].style
  /\ \E q \in 1..Len(new_events) : new_events[q] = DivStart(class_annotations[2])

====
